---- MODULE Spec2Model ----
(***************************************************************************)
(* Model of app.py: the synthetic traffic generator (load_data, behind     *)
(* st.cache_data), the anomaly scorer (detect_anomalies, an isolation      *)
(* forest fitted on three feature columns) and the per-interaction         *)
(* pipeline of main() under the catch-all of the entry point.              *)
(*                                                                         *)
(* A table (pandas DataFrame) is a record [n, cols]: n is the length of    *)
(* the index and cols maps each column NAME THAT IS PRESENT to the         *)
(* sequence of its n values.  A column that is absent is not in            *)
(* DOMAIN cols, so selecting it is a KeyError.                             *)
(*                                                                         *)
(* Real numbers are fixed point: lognormal draws are in tenths, the        *)
(* contamination is in hundredths, decision scores are integers in a       *)
(* fixed scale.  The isolation forest is scikit-learn's algorithm on a     *)
(* small scale: random-split trees grown from seeds drawn from             *)
(* random_state, average path lengths, a percentile offset.                *)
(***************************************************************************)
EXTENDS Integers, Sequences, FiniteSets, TLC

VARIABLES
    clock,          \* datetime.now(), in minutes
    rng,            \* state of numpy's process-wide generator
    cache,          \* st.cache_data store of load_data: samples -> entry
    pc,             \* position of main() in the current cycle
    sample_size,    \* slider value of the cycle
    contamination,  \* slider value of the cycle (hundredths)
    data,           \* the table main() holds / the table handed to the scorer
    anomalies,      \* analyzed_data[Anomaly_Score == -1], or None
    errors,         \* st.error messages surfaced in the cycle / by the call
    steps,          \* pipeline steps taken in the cycle, in order
    rendered,       \* what the cycle rendered (metrics), or None
    call,           \* record of the last call of load_data / detect_anomalies
    prev            \* record of the call before it, where two calls are compared

vars == <<clock, rng, cache, pc, sample_size, contamination, data, anomalies,
          errors, steps, rendered, call, prev>>

----------------------------------------------------------------------------
(* Bounds of the model *)

MaxSamples == 2
MaxClock == 2
MaxRows == 4
MaxJobs == 2

----------------------------------------------------------------------------
(* Values *)

\* Python's None, and an absent entry of a store: records, as tables are
None == [none |-> TRUE]
NoEntry == [absent |-> TRUE]

IPPool == <<"192.168.1.1", "192.168.1.2", "192.168.1.3", "192.168.1.4">>
PortPool == <<80, 443, 22, 3389>>

BaseColumns ==
    {"Timestamp", "IP_Address", "Bytes_Sent", "Bytes_Received",
     "Request_Count", "Port"}

features == <<"Bytes_Sent", "Bytes_Received", "Request_Count">>

FeatureSet == {features[k] : k \in 1..Len(features)}

Min(S) == CHOOSE x \in S : \A y \in S : x <= y
Max(S) == CHOOSE x \in S : \A y \in S : x >= y

RECURSIVE SumOver(_, _)
SumOver(f, S) ==
    IF S = {} THEN 0
    ELSE LET x == CHOOSE y \in S : TRUE IN f[x] + SumOver(f, S \ {x})

\* a function on 1..n as the tuple of its values, every value computed once
AsSeq(f) == f \o <<>>

----------------------------------------------------------------------------
(* numpy's global generator: a linear congruential stand-in for the        *)
(* Mersenne Twister.  seed() sets the state, every draw advances it.       *)

RngSeed(s) == s % 64

RngNext(r) == (21 * r + 11) % 64

RECURSIVE RngSkip(_, _)
RngSkip(r, k) == IF k = 0 THEN r ELSE RngSkip(RngNext(r), k - 1)

\* the k-th draw (k >= 1) made from state r
Draw(r, k) == RngSkip(r, k)

\* np.random.choice(pool, samples): one uniform index per draw
Choice(pool, u) == pool[((u \div 4) % Len(pool)) + 1]

\* np.random.lognormal(mean=5, sigma=1): a positive real, here in tenths,
\* heavy tailed
LogNormalTenths(u) == 3 * (2 ^ (u % 6))

\* .astype(int): truncation of a float to an integer
AsTypeInt(x) == x \div 10

\* np.random.poisson(lam=25): a count
Poisson(u) == u % 4

----------------------------------------------------------------------------
(* load_data *)

\* pd.date_range(start=now, periods=samples, freq='T')
DateRangeBad(start, periods) == [i \in 1..periods |-> start + 60 * (i - 1)]
DateRange(start, periods) == [i \in 1..periods |-> start + (i - 1)]

\* np.random.seed(42)
SeedGenerator(r) == RngSeed(42)

\* the DataFrame of lines 19-26, drawn from generator state r0
BuildFrame(samples, now, r0) ==
    [n |-> samples,
     cols |->
       [Timestamp |-> DateRange(now, samples),
        IP_Address |-> [i \in 1..samples |-> Choice(IPPool, Draw(r0, i))],
        Bytes_Sent |->
          [i \in 1..samples |->
             AsTypeInt(LogNormalTenths(Draw(r0, samples + i)))],
        Bytes_Received |->
          [i \in 1..samples |->
             AsTypeInt(LogNormalTenths(Draw(r0, 2 * samples + i)))],
        Request_Count |->
          [i \in 1..samples |-> Poisson(Draw(r0, 3 * samples + i))],
        Port |-> [i \in 1..samples |-> Choice(PortPool, Draw(r0, 4 * samples + i))]]]

\* The body of load_data: the value returned, the st.error messages it
\* surfaced and the generator state it leaves.  A negative samples makes
\* date_range raise; fault is any other exception raised while the frame is
\* built (both are caught by the except clause).
load_data_body(samples, now, r, fault) ==
    LET r0 == SeedGenerator(r) IN
    IF samples < 0 \/ fault
    THEN [value |-> None, msgs |-> <<"Error loading data">>, rng |-> r0]
    ELSE [value |-> BuildFrame(samples, now, r0), msgs |-> <<>>,
          rng |-> RngSkip(r0, 5 * samples)]

\* @st.cache_data: a hit returns a copy of the stored value and replays the
\* stored messages without running the body; a miss runs the body and stores
\* its value (None included) and messages.
load_data(samples, now, r, store, fault) ==
    IF store[samples] # NoEntry
    THEN [value |-> store[samples].value, msgs |-> store[samples].msgs,
          rng |-> r, store |-> store, hit |-> TRUE]
    ELSE LET b == load_data_body(samples, now, r, fault) IN
         [value |-> b.value, msgs |-> b.msgs, rng |-> b.rng,
          store |-> [store EXCEPT ![samples] = [value |-> b.value, msgs |-> b.msgs]],
          hit |-> FALSE]

----------------------------------------------------------------------------
(* IsolationForest(n_estimators, contamination, random_state, n_jobs)      *)

\* 100 trees in the source; the model grows fewer
n_estimators == 2

random_state == 42

\* the slider's range of contamination, in hundredths: 0.01, 0.1 (the
\* default) and 0.5
Contaminations == {1, 10, 50}

Faults == {"none", "fit_predict", "decision_function"}

\* data[features]: the rows of the feature columns, in row order
SelectFeaturesBad(t) ==
    AsSeq([i \in 1..t.n |->
             <<t.cols[features[1]][i]
                 + (IF "Anomaly_Score" \in DOMAIN t.cols
                    THEN t.cols["Anomaly_Score"][i] ELSE 0),
               t.cols[features[2]][i], t.cols[features[3]][i]>>])
SelectFeatures(t) ==
    AsSeq([i \in 1..t.n |->
             <<t.cols[features[1]][i], t.cols[features[2]][i],
               t.cols[features[3]][i]>>])

\* _average_path_length(m), times ten: 0, 1, then 2(ln(m-1)+0.5772)-2(m-1)/m
AvgPath10(m) ==
    CASE m <= 1 -> 0
      [] m = 2 -> 10
      [] m = 3 -> 12
      [] m = 4 -> 19
      [] m = 5 -> 23
      [] m = 6 -> 27
      [] OTHER -> 30

\* max_depth = ceil(log2(max(max_samples, 2))), max_samples = min(256, n)
TreeMaxDepth(n) ==
    CASE n <= 2 -> 1
      [] n <= 4 -> 2
      [] n <= 8 -> 3
      [] OTHER -> 4

\* the k-th smallest element of a set of integers, k >= 0
RECURSIVE KthOfSet(_, _)
KthOfSet(S, k) == IF k = 0 THEN Min(S) ELSE KthOfSet(S \ {Min(S)}, k - 1)

\* The path length (times ten) of every row of S in one random-split tree
\* grown on the rows S of X: a feature that varies in the node and a split
\* value in [min, max) are drawn from the tree's generator; rows <= the
\* split go left.  A node stops at one row, at identical rows or at the
\* depth limit, where the average path length of what is left is added.
RECURSIVE PathLen10(_, _, _, _)
PathLen10(X, S, r, depth) ==
    LET vals == [f \in 1..Len(features) |-> {X[a][f] : a \in S}]
        varying == {f \in 1..Len(features) : Cardinality(vals[f]) > 1}
    IN  IF Cardinality(S) <= 1 \/ varying = {} \/ depth >= TreeMaxDepth(Len(X))
        THEN LET leaf == 10 * depth + AvgPath10(Cardinality(S))
             IN  [a \in S |-> leaf]
        ELSE LET f == KthOfSet(varying, r % Cardinality(varying))
                 lo == Min(vals[f])
                 hi == Max(vals[f])
                 r1 == RngNext(r)
                 split == lo + (r1 % (hi - lo))
                 left == {a \in S : X[a][f] <= split}
             IN  PathLen10(X, left, RngNext(r1), depth + 1)
                 @@ PathLen10(X, S \ left, RngNext(RngNext(r1)), depth + 1)

\* _partition_estimators: the number of trees worker j of jobs builds
JobSize(j, jobs) ==
    (n_estimators \div jobs) + (IF j <= n_estimators % jobs THEN 1 ELSE 0)

RECURSIVE JobStart(_, _)
JobStart(j, jobs) ==
    IF j = 1 THEN 0 ELSE JobStart(j - 1, jobs) + JobSize(j - 1, jobs)

\* The seed of every tree is drawn from random_state before the trees are
\* handed to the workers; worker j grows the trees JobStart+1..JobStart+JobSize
\* from its slice of the seeds, and the workers' trees are concatenated.
RECURSIVE EstimatorSeedsFrom(_, _)
EstimatorSeedsFrom(j, jobs) ==
    IF j > jobs THEN <<>>
    ELSE [k \in 1..JobSize(j, jobs) |->
            Draw(RngSeed(random_state), JobStart(j, jobs) + k)]
         \o EstimatorSeedsFrom(j + 1, jobs)

\* n_jobs=-1: as many workers as cores, at most one per tree
EstimatorSeeds(cores) == EstimatorSeedsFrom(1, Min({cores, n_estimators}))

\* score_samples, up to the increasing map -2^(-mean/c(n)): per row of X
\* (the rows the trees were grown on), the sum over the fitted trees of the
\* row's path length; a larger value is more normal
score_samples(trees, X) ==
    AsSeq([i \in 1..Len(X) |->
             SumOver([t \in 1..Len(trees) |-> trees[t][i]], 1..Len(trees))])

\* the k-th smallest (k >= 0) of the values of a sequence, duplicates counted
KthSmallest(s, k) ==
    CHOOSE v \in {s[i] : i \in 1..Len(s)} :
        /\ Cardinality({i \in 1..Len(s) : s[i] < v}) <= k
        /\ Cardinality({i \in 1..Len(s) : s[i] <= v}) > k

\* np.percentile(s, q) times 100, q in percent, linear interpolation
Percentile100Bad(s, q) ==
    LET pos == (Len(s) - 1) * (100 - q)
        lo == pos \div 100
        fr == pos % 100
        a == KthSmallest(s, lo)
        b == IF lo + 1 < Len(s) THEN KthSmallest(s, lo + 1) ELSE a
    IN  100 * a + fr * (b - a)
Percentile100(s, q) ==
    LET pos == (Len(s) - 1) * q
        lo == pos \div 100
        fr == pos % 100
        a == KthSmallest(s, lo)
        b == IF lo + 1 < Len(s) THEN KthSmallest(s, lo + 1) ELSE a
    IN  100 * a + fr * (b - a)

\* model.fit(X): the trees, each grown from its seed on all rows
\* (max_samples = n <= 256) and kept as the path length of every row, and
\* offset_, the contamination percentile of the scores of the training rows
Fit(X, c, cores) ==
    LET seeds == EstimatorSeeds(cores)
        trees == AsSeq([t \in 1..Len(seeds) |->
                          PathLen10(X, 1..Len(X), seeds[t], 0)])
    IN  [trees |-> trees, offset |-> Percentile100(score_samples(trees, X), c)]

\* model.decision_function(X): score_samples - offset_ (times 100)
decision_function(model, X) ==
    LET s == score_samples(model.trees, X) IN
    AsSeq([i \in 1..Len(X) |-> 100 * s[i] - model.offset])

\* model.predict(X): -1 where the decision function is negative, +1 elsewhere
PredictBad(model, X) ==
    LET s == score_samples(model.trees, X) IN
    AsSeq([i \in 1..Len(X) |-> IF 100 * s[i] <= model.offset THEN -1 ELSE 1])
Predict(model, X) ==
    LET dec == decision_function(model, X) IN
    AsSeq([i \in 1..Len(X) |-> IF dec[i] < 0 THEN -1 ELSE 1])

\* fit raises on an empty batch and on a contamination outside (0, 0.5]
FitRaises(X, c) == Len(X) = 0 \/ c <= 0 \/ c > 50

----------------------------------------------------------------------------
(* detect_anomalies *)

\* data[name] = values: the column is added, or overwritten when present
SetColumnBad(t, name, values) ==
    [n |-> t.n,
     cols |-> [c \in (DOMAIN t.cols \cap FeatureSet) \cup {name} |->
                 IF c = name THEN values ELSE t.cols[c]]]
SetColumn(t, name, values) ==
    [n |-> t.n,
     cols |-> [c \in DOMAIN t.cols \cup {name} |->
                 IF c = name THEN values ELSE t.cols[c]]]

ScoringError == <<"Error in anomaly detection">>

\* The try block of lines 35-49: the table as the block leaves it and
\* whether an exception left the block.  fault names a library call that
\* raises for a reason outside the table.
ScoreTry(t, c, cores, fault) ==
    IF t = None
    THEN [data |-> t, raised |-> TRUE]
    ELSE
    IF ~(FeatureSet \subseteq DOMAIN t.cols)
    THEN [data |-> t, raised |-> TRUE]
    ELSE LET scaled_data == SelectFeatures(t) IN
         IF FitRaises(scaled_data, c) \/ fault = "fit_predict"
         THEN [data |-> t, raised |-> TRUE]
         ELSE LET model == Fit(scaled_data, c, cores)
                  anomaly_scores == Predict(model, scaled_data)
                  t1 == SetColumn(t, "Anomaly_Score", anomaly_scores)
              IN  IF fault = "decision_function"
                  THEN [data |-> t1, raised |-> TRUE]
                  ELSE [data |-> SetColumn(t1, "Confidence",
                                     decision_function(model, scaled_data)),
                        raised |-> FALSE]

\* except Exception (lines 50-52): the error is surfaced and data returned
ScoreExceptBad(r) ==
    [data |-> None, msgs |-> <<>>, ok |-> FALSE, raised |-> TRUE]
ScoreExcept(r) ==
    [data |-> r.data, msgs |-> ScoringError, ok |-> FALSE, raised |-> FALSE]

\* The call as its caller sees it: the table returned (the argument itself,
\* modified in place), the messages surfaced, whether the try block reached
\* its return, and whether an exception reached the caller.
detect_anomalies(t, c, cores, fault) ==
    LET r == ScoreTry(t, c, cores, fault) IN
    IF r.raised THEN ScoreExcept(r)
    ELSE [data |-> r.data, msgs |-> <<>>, ok |-> TRUE, raised |-> FALSE]

\* the columns of a table (None has none)
Columns(t) == IF t = None THEN {} ELSE DOMAIN t.cols

HasLabel(t) == "Anomaly_Score" \in Columns(t)
HasConfidence(t) == "Confidence" \in Columns(t)

\* analyzed_data[analyzed_data['Anomaly_Score'] == -1]: the rows kept
AnomalyRows(t) == {i \in 1..t.n : t.cols["Anomaly_Score"][i] = -1}

----------------------------------------------------------------------------
(* State shared by the specifications *)

NoCall == [op |-> "none"]

\* the sample sizes load_data is called with: the slider's positive sizes
\* (100..1000 in the source, scaled) and a negative one
GenSizes == {-1} \cup 1..MaxSamples

EmptyCache == [s \in GenSizes |-> NoEntry]

\* the state of a process in which nothing has been called yet
Quiet ==
    /\ clock = 0
    /\ rng = 0
    /\ cache = EmptyCache
    /\ pc = "idle"
    /\ sample_size = 1
    /\ contamination = 10
    /\ anomalies = None
    /\ errors = <<>>
    /\ steps = <<>>
    /\ rendered = None
    /\ call = NoCall
    /\ prev = NoCall

----------------------------------------------------------------------------
(* The scorer on its own: detect_anomalies applied to a table of records   *)

\* the kinds of record, as feature rows <<Bytes_Sent, Bytes_Received,
\* Request_Count>>: a typical record, two near it, and a heavy one
FeatureRows == <<<<1, 1, 2>>, <<2, 1, 3>>, <<1, 4, 2>>, <<9, 5, 0>>>>

FrameOf(x) ==
    [n |-> Len(x),
     cols |->
       [Timestamp |-> [i \in 1..Len(x) |-> i - 1],
        IP_Address |-> [i \in 1..Len(x) |-> IPPool[((i - 1) % 4) + 1]],
        Bytes_Sent |-> [i \in 1..Len(x) |-> x[i][1]],
        Bytes_Received |-> [i \in 1..Len(x) |-> x[i][2]],
        Request_Count |-> [i \in 1..Len(x) |-> x[i][3]],
        Port |-> [i \in 1..Len(x) |-> PortPool[((i - 1) % 4) + 1]]]]

\* df.drop(columns=[name])
DropColumn(t, name) ==
    [n |-> t.n, cols |-> [c \in DOMAIN t.cols \ {name} |-> t.cols[c]]]

\* the orders of n records: their kinds never decrease, or never increase
KindOrders(n) ==
    {k \in [1..n -> 1..Len(FeatureRows)] :
        \/ \A i \in 1..(n - 1) : k[i] <= k[i + 1]
        \/ \A i \in 1..(n - 1) : k[i] >= k[i + 1]}

\* tables of up to MaxRows records with every base column
FullTables ==
    UNION {{FrameOf([i \in 1..n |-> FeatureRows[k[i]]]) : k \in KindOrders(n)}
           : n \in 0..MaxRows}

\* the inputs of the scorer: a full table, a table that lacks one feature
\* column, and a table an earlier scoring (at the default contamination)
\* has already labelled
ScoreInputs ==
    FullTables
    \cup {DropColumn(t, f) : t \in FullTables, f \in FeatureSet}
    \cup {detect_anomalies(t, 10, 1, "none").data : t \in FullTables}

InitScore ==
    /\ Quiet
    /\ data \in ScoreInputs

\* one call detect_anomalies(data, c) on a machine with the given number of
\* cores
ScoreCall(c, cores, fault) ==
    LET r == detect_anomalies(data, c, cores, fault) IN
    /\ call = NoCall
    /\ data' = r.data
    /\ errors' = r.msgs
    /\ call' = [op |-> "score", before |-> data, after |-> r.data, c |-> c,
                cores |-> cores, fault |-> fault, ok |-> r.ok,
                raised |-> r.raised, msgs |-> r.msgs]
    /\ UNCHANGED <<clock, rng, cache, pc, sample_size, contamination,
                   anomalies, steps, rendered, prev>>

NextScore ==
    \E c \in Contaminations, cores \in 1..MaxJobs, fault \in Faults :
        ScoreCall(c, cores, fault)

SpecScore == InitScore /\ [][NextScore]_vars

Scored == call.op = "score"

LabelColumns == {"Anomaly_Score", "Confidence"}

\* the number of records a scored table labels Anomalous
AnomalyCount(t) == Cardinality(AnomalyRows(t))

\* C1: whichever way the scoring step fails (selecting the feature columns,
\* fit_predict, or the later decision_function), the table returned is the
\* input unchanged, without label or confidence when the input had none;
\* and after any call label and confidence are both present or both absent.
C1_FailedScoreReturnsInputUnlabelled ==
    Scored =>
        /\ ~call.raised
        /\ ~call.ok => call.after = call.before
        /\ (~call.ok /\ ~HasLabel(call.before) /\ ~HasConfidence(call.before))
               => (~HasLabel(call.after) /\ ~HasConfidence(call.after))
        /\ HasLabel(call.after) <=> HasConfidence(call.after)

\* C4: given a table that lacks one of the three feature columns, the scorer
\* surfaces an error, does not raise to its caller, and returns the table
\* it was given with no column added, removed or changed.
C4_MissingFeatureDegrades ==
    (Scored /\ ~(FeatureSet \subseteq Columns(call.before))) =>
        /\ ~call.raised
        /\ call.msgs = ScoringError
        /\ ~call.ok
        /\ call.after = call.before

C4_Witness ==
    /\ Scored
    /\ "Bytes_Received" \notin Columns(call.before)
    /\ BaseColumns \ {"Bytes_Received"} \subseteq Columns(call.before)
    /\ call.before.n >= 2
    /\ call.after = call.before
    /\ errors = ScoringError

\* C5: a successful scoring keeps the row count, the row order and every
\* base field of every row; the table differs from its input only in the
\* columns Anomaly_Score and Confidence, added or overwritten, one value per
\* row.
C5_ScoreKeepsRowsAndBaseFields ==
    (Scored /\ call.ok) =>
        /\ call.after.n = call.before.n
        /\ DOMAIN call.after.cols = DOMAIN call.before.cols \cup LabelColumns
        /\ \A col \in DOMAIN call.before.cols \ LabelColumns :
              call.after.cols[col] = call.before.cols[col]
        /\ BaseColumns \subseteq DOMAIN call.after.cols
        /\ \A col \in LabelColumns : Len(call.after.cols[col]) = call.after.n

C5_Witness ==
    /\ Scored
    /\ call.ok
    /\ call.before.n >= 3
    /\ HasLabel(call.before)
    /\ call.after.cols["Anomaly_Score"] # call.before.cols["Anomaly_Score"]
    /\ call.after.cols["Confidence"] # call.before.cols["Confidence"]
    /\ call.after.cols["Bytes_Sent"][1] # call.after.cols["Bytes_Sent"][2]

\* C9: after a successful scoring a record is labelled Anomalous (-1) exactly
\* when its confidence is negative and Normal (+1) otherwise, so the rows the
\* caller filters as anomalies are exactly the rows of negative confidence.
C9_LabelIsSignOfConfidence ==
    (Scored /\ call.ok) =>
        /\ \A i \in 1..data.n :
              /\ data.cols["Anomaly_Score"][i] \in {-1, 1}
              /\ data.cols["Anomaly_Score"][i] = -1 <=> data.cols["Confidence"][i] < 0
        /\ AnomalyRows(data) = {i \in 1..data.n : data.cols["Confidence"][i] < 0}

\* a record at the threshold (confidence 0, Normal) beside an Anomalous one
C9_Witness ==
    /\ Scored
    /\ call.ok
    /\ \E i, j \in 1..data.n :
          /\ data.cols["Confidence"][i] < 0
          /\ data.cols["Anomaly_Score"][i] = -1
          /\ data.cols["Confidence"][j] = 0
          /\ data.cols["Anomaly_Score"][j] = 1

----------------------------------------------------------------------------
(* Two calls of the scorer on the same records: the second runs on the     *)
(* table the first has scored in place                                     *)

InitRescore ==
    /\ Quiet
    /\ data \in FullTables

Rescore(c, cores) ==
    LET r == detect_anomalies(data, c, cores, "none") IN
    /\ prev = NoCall
    /\ data' = r.data
    /\ errors' = r.msgs
    /\ prev' = call
    /\ call' = [op |-> "score", before |-> data, after |-> r.data, c |-> c,
                cores |-> cores, fault |-> "none", ok |-> r.ok,
                raised |-> r.raised, msgs |-> r.msgs]
    /\ UNCHANGED <<clock, rng, cache, pc, sample_size, contamination,
                   anomalies, steps, rendered>>

NextRescore == \E c \in Contaminations, cores \in 1..MaxJobs : Rescore(c, cores)

SpecRescore == InitRescore /\ [][NextRescore]_vars

TwoScored == prev.op = "score" /\ prev.ok /\ call.op = "score" /\ call.ok

\* C7: on the same records, a scoring with the larger contamination labels
\* at least as many records Anomalous; the score of a record does not depend
\* on the contamination, which only moves the threshold (the two confidences
\* of a record differ by the same amount for every record).
C7_ContaminationMonotone ==
    TwoScored =>
        /\ prev.c <= call.c => AnomalyCount(prev.after) <= AnomalyCount(call.after)
        /\ prev.c >= call.c => AnomalyCount(prev.after) >= AnomalyCount(call.after)
        /\ \A i, j \in 1..data.n :
              prev.after.cols["Confidence"][i] - call.after.cols["Confidence"][i]
                = prev.after.cols["Confidence"][j] - call.after.cols["Confidence"][j]

C7_Witness ==
    /\ TwoScored
    /\ prev.c < call.c
    /\ 0 < AnomalyCount(prev.after)
    /\ AnomalyCount(prev.after) < AnomalyCount(call.after)

\* C8: two scorings of the same records with the same contamination give
\* every record the same label and the same confidence, also when the second
\* runs on the table the first scored in place and on another number of
\* workers.
C8_RescoreIsIdentical ==
    (TwoScored /\ prev.c = call.c) =>
        /\ call.after.cols["Anomaly_Score"] = prev.after.cols["Anomaly_Score"]
        /\ call.after.cols["Confidence"] = prev.after.cols["Confidence"]

C8_Witness ==
    /\ TwoScored
    /\ prev.c = call.c
    /\ prev.cores # call.cores
    /\ HasLabel(call.before)
    /\ call.before = prev.after
    /\ AnomalyCount(call.after) > 0
    /\ AnomalyCount(call.after) < call.after.n

----------------------------------------------------------------------------
(* The generator on its own: load_data called through its cache, while the *)
(* clock advances and the cache may be cleared (st.cache_data.clear, the   *)
(* "Clear cache" command of the running app)                               *)

InitGen ==
    /\ Quiet
    /\ data = None

GenCall(s, fault) ==
    LET r == load_data(s, clock, rng, cache, fault) IN
    /\ data' = r.value
    /\ rng' = r.rng
    /\ cache' = r.store
    /\ errors' = r.msgs
    /\ prev' = IF prev = NoCall THEN call ELSE prev
    /\ call' = [op |-> "generate", samples |-> s, value |-> r.value,
                msgs |-> r.msgs, hit |-> r.hit]
    /\ UNCHANGED <<clock, pc, sample_size, contamination, anomalies, steps,
                   rendered>>

Tick ==
    /\ pc \in {"idle", "done"}
    /\ clock < MaxClock
    /\ clock' = clock + 1
    /\ UNCHANGED <<rng, cache, pc, sample_size, contamination, data, anomalies,
                   errors, steps, rendered, call, prev>>

ClearCache ==
    /\ pc \in {"idle", "done"}
    /\ cache # EmptyCache
    /\ cache' = EmptyCache
    /\ UNCHANGED <<clock, rng, pc, sample_size, contamination, data, anomalies,
                   errors, steps, rendered, call, prev>>

NextGen ==
    \/ \E s \in GenSizes, fault \in BOOLEAN : GenCall(s, fault)
    \/ Tick
    \/ ClearCache

SpecGen == InitGen /\ [][NextGen]_vars

TwoGenerated ==
    /\ prev.op = "generate"
    /\ call.op = "generate"
    /\ prev.value # None
    /\ call.value # None

\* C3: two calls of the generator with the same sample size in one process
\* return tables identical in every field, the timestamp included, whether
\* the second is answered from the cache or recomputed at a later time.
C3_SameSizeSameTable ==
    (TwoGenerated /\ prev.samples = call.samples) => call.value = prev.value

\* C6: a successful generate(sample_size), sample_size positive, returns
\* exactly sample_size records with every base field, non-negative byte and
\* request counts, an address and a port of the fixed pools, and timestamps
\* one minute apart, increasing.
C6_GeneratedTableWellFormed ==
    (call.op = "generate" /\ call.samples > 0 /\ call.value # None) =>
        LET t == call.value IN
        /\ t.n = call.samples
        /\ DOMAIN t.cols = BaseColumns
        /\ \A c \in BaseColumns : Len(t.cols[c]) = call.samples
        /\ \A i \in 1..t.n :
              /\ t.cols["Bytes_Sent"][i] \in Nat
              /\ t.cols["Bytes_Received"][i] \in Nat
              /\ t.cols["Request_Count"][i] \in Nat
              /\ \E k \in 1..4 : t.cols["IP_Address"][i] = IPPool[k]
              /\ \E k \in 1..4 : t.cols["Port"][i] = PortPool[k]
        /\ \A i \in 1..(t.n - 1) :
              t.cols["Timestamp"][i + 1] = t.cols["Timestamp"][i] + 1

C6_Witness ==
    /\ call.op = "generate"
    /\ call.samples = MaxSamples
    /\ call.samples >= 2
    /\ ~call.hit
    /\ call.value # None
    /\ call.value.cols["Timestamp"][1] = clock
    /\ clock > 0

----------------------------------------------------------------------------
(* main(): one run of the script per interaction, under the catch-all of   *)
(* the entry point                                                         *)

\* the slider's sample sizes (100..1000 in steps of 100, scaled)
SliderSizes == 1..MaxSamples

Unexpected == "An unexpected error occurred"

\* lines 95-96: a null table ends the run
AfterLoadBad(value) == "detect"
AfterLoad(value) == IF value = None THEN "done" ELSE "detect"

\* the rows of t whose index is in keep, in the order of t
RECURSIVE KeepRows(_, _, _)
KeepRows(col, keep, i) ==
    IF i > Len(col) THEN <<>>
    ELSE (IF i \in keep THEN <<col[i]>> ELSE <<>>) \o KeepRows(col, keep, i + 1)

\* analyzed_data[analyzed_data['Anomaly_Score'] == -1]
FilterAnomalies(t) ==
    [n |-> AnomalyCount(t),
     cols |-> [c \in DOMAIN t.cols |-> KeepRows(t.cols[c], AnomalyRows(t), 1)]]

Init ==
    /\ Quiet
    /\ data = None

\* a slider change or a press of Refresh reruns the script from the top
Interact(s, c) ==
    /\ pc \in {"idle", "done"}
    /\ pc' = "load"
    /\ sample_size' = s
    /\ contamination' = c
    /\ data' = None
    /\ anomalies' = None
    /\ errors' = <<>>
    /\ steps' = <<>>
    /\ rendered' = None
    /\ call' = NoCall
    /\ UNCHANGED <<clock, rng, cache, prev>>

\* data = load_data(sample_size); if data is None: return
LoadData(fault) ==
    LET r == load_data(sample_size, clock, rng, cache, fault) IN
    /\ pc = "load"
    /\ data' = r.value
    /\ rng' = r.rng
    /\ cache' = r.store
    /\ errors' = errors \o r.msgs
    /\ steps' = Append(steps, "generate")
    /\ pc' = AfterLoad(r.value)
    /\ UNCHANGED <<clock, sample_size, contamination, anomalies, rendered,
                   call, prev>>

\* analyzed_data = detect_anomalies(data, contamination): analyzed_data is
\* data itself, scored in place
Detect(cores, fault) ==
    LET r == detect_anomalies(data, contamination, cores, fault) IN
    /\ pc = "detect"
    /\ steps' = Append(steps, "score")
    /\ call' = [op |-> "score", before |-> data, after |-> r.data,
                c |-> contamination, cores |-> cores, fault |-> fault,
                ok |-> r.ok, raised |-> r.raised, msgs |-> r.msgs]
    /\ IF r.raised
       THEN /\ errors' = Append(errors, Unexpected)
            /\ pc' = "done"
            /\ data' = data
       ELSE /\ errors' = errors \o r.msgs
            /\ pc' = "filter"
            /\ data' = r.data
    /\ UNCHANGED <<clock, rng, cache, sample_size, contamination, anomalies,
                   rendered, prev>>

\* anomalies = analyzed_data[analyzed_data['Anomaly_Score'] == -1]: without
\* the column the subscript raises, and the catch-all of lines 134-137 turns
\* the exception into a message
Filter ==
    /\ pc = "filter"
    /\ IF data = None \/ ~HasLabel(data)
       THEN /\ errors' = Append(errors, Unexpected)
            /\ pc' = "done"
            /\ anomalies' = anomalies
       ELSE /\ anomalies' = FilterAnomalies(data)
            /\ pc' = "render"
            /\ errors' = errors
    /\ UNCHANGED <<clock, rng, cache, sample_size, contamination, data, steps,
                   rendered, call, prev>>

\* the tabs: the three metrics, the charts and the two tables
Render ==
    /\ pc = "render"
    /\ steps' = Append(steps, "render")
    /\ IF data.n = 0
       THEN /\ errors' = Append(errors, Unexpected)
            /\ rendered' = rendered
       ELSE /\ rendered' = [total |-> data.n, anomalies |-> anomalies.n,
                            table |-> data]
            /\ errors' = errors
    /\ pc' = "done"
    /\ UNCHANGED <<clock, rng, cache, sample_size, contamination, data,
                   anomalies, call, prev>>

Next ==
    \/ \E s \in SliderSizes, c \in Contaminations : Interact(s, c)
    \/ \E fault \in BOOLEAN : LoadData(fault)
    \/ \E cores \in 1..MaxJobs, fault \in Faults : Detect(cores, fault)
    \/ Filter
    \/ Render
    \/ Tick
    \/ ClearCache

Spec == Init /\ [][Next]_vars

ScoringFailed == call.op = "score" /\ ~call.ok

\* C2: in a cycle where scoring fails, main receives the original table and
\* still renders it, without anomaly information; the missing label and
\* confidence do not raise an error or end the cycle unrendered.
C2_ScoringFailureStillRenders ==
    (pc = "done" /\ ScoringFailed) =>
        /\ data = call.before
        /\ rendered # None
        /\ \A k \in 1..Len(errors) : errors[k] # Unexpected

\* C10: when generation fails the generator surfaces an error and returns a
\* null table and the cycle ends at once, with no scoring and no rendering;
\* in every cycle the steps taken are generate, then score, then render, and
\* scoring and rendering only happen with a non-null generated table.
C10_NullTableEndsCycle ==
    /\ \E k \in 0..3 : steps = SubSeq(<<"generate", "score", "render">>, 1, k)
    /\ (Len(steps) >= 1 /\ data = None) =>
          /\ steps = <<"generate">>
          /\ pc = "done"
          /\ \E k \in 1..Len(errors) : errors[k] = "Error loading data"
          /\ rendered = None
          /\ anomalies = None
          /\ call = NoCall
    /\ pc \in {"detect", "filter", "render"} => data # None
    /\ (Len(steps) = 0) => (rendered = None /\ call = NoCall)
    /\ rendered # None => steps = <<"generate", "score", "render">>

C10_Witness ==
    /\ pc = "done"
    /\ data = None
    /\ steps = <<"generate">>
    /\ errors = <<"Error loading data">>
    /\ rendered = None

====
